---------------------------- MODULE Spec2Model ----------------------------
(***************************************************************************)
(* Currency swap form (React 18.2, src/unnamed/part_006:53): the form      *)
(* component CurrencySwapForm with its two hooks useTokenPrices and        *)
(* useSwap, and the pure helpers of utils/formatters and utils/validators. *)
(*                                                                         *)
(* Strings are sequences of one-character strings, so that parsing and     *)
(* formatting are computed and not assumed.  Numbers are JavaScript        *)
(* numbers: IEEE 754 doubles with a 53-bit mantissa, every operation       *)
(* rounded to nearest (ties to even) as the code's arithmetic is.          *)
(***************************************************************************)
EXTENDS Integers, Sequences, FiniteSets, TLC

\* ------------------------------------------------------------------------
\* Natural numbers of any size: big-endian sequences of limbs in base Base,
\* without leading zeros (0 is the empty sequence)
\* ------------------------------------------------------------------------

Base == 10000

BaseDigits == 4

DigitChars == <<"0", "1", "2", "3", "4", "5", "6", "7", "8", "9">>

IsDigit(c) == \E k \in 1..10 : DigitChars[k] = c

DigitOf(c) == (CHOOSE k \in 1..10 : DigitChars[k] = c) - 1

Front(s) == SubSeq(s, 1, Len(s) - 1)

Last(s) == s[Len(s)]

RECURSIVE Strip(_)
Strip(ds) ==
    IF ds = <<>> THEN <<>>
    ELSE IF Head(ds) = 0 THEN Strip(Tail(ds)) ELSE ds

RECURSIVE NatLimbs(_)
NatLimbs(n) ==
    IF n = 0 THEN <<>> ELSE Append(NatLimbs(n \div Base), n % Base)

\* ds * p + carry, for 0 <= p <= Base
RECURSIVE MulAcc(_, _, _)
MulAcc(ds, p, carry) ==
    IF ds = <<>> THEN NatLimbs(carry)
    ELSE LET t == Last(ds) * p + carry
         IN  Append(MulAcc(Front(ds), p, t \div Base), t % Base)

MulSmall(ds, p) == Strip(MulAcc(ds, p, 0))

Twice(ds) == MulAcc(ds, 2, 0)

RECURSIVE DivAcc(_, _, _)
DivAcc(ds, q, rem) ==
    IF ds = <<>> THEN <<>>
    ELSE LET t == rem * Base + Head(ds)
         IN  <<t \div q>> \o DivAcc(Tail(ds), q, t % q)

\* floor(ds / q), for 0 < q <= Base
DivSmall(ds, q) == Strip(DivAcc(ds, q, 0))

RECURSIVE LexGreater(_, _)
LexGreater(a, b) ==
    IF a = <<>> THEN FALSE
    ELSE IF Head(a) # Head(b) THEN Head(a) > Head(b)
    ELSE LexGreater(Tail(a), Tail(b))

\* a > b
Greater(a, b) ==
    \/ Len(a) > Len(b)
    \/ Len(a) = Len(b) /\ LexGreater(a, b)

RECURSIVE AddAcc(_, _, _)
AddAcc(a, b, carry) ==
    IF a = <<>> /\ b = <<>> THEN NatLimbs(carry)
    ELSE LET t == (IF a = <<>> THEN 0 ELSE Last(a))
                   + (IF b = <<>> THEN 0 ELSE Last(b)) + carry
         IN  Append(AddAcc(IF a = <<>> THEN a ELSE Front(a),
                           IF b = <<>> THEN b ELSE Front(b), t \div Base),
                    t % Base)

Add(a, b) == AddAcc(a, b, 0)

\* a - b - borrow, for a >= b + borrow (leading zeros left in)
RECURSIVE SubAcc(_, _, _)
SubAcc(a, b, borrow) ==
    IF a = <<>> THEN <<>>
    ELSE LET t == Last(a) - (IF b = <<>> THEN 0 ELSE Last(b)) - borrow
         IN  Append(SubAcc(Front(a), IF b = <<>> THEN b ELSE Front(b),
                           IF t < 0 THEN 1 ELSE 0),
                    IF t < 0 THEN t + Base ELSE t)

Sub(a, b) == Strip(SubAcc(a, b, 0))

RECURSIVE Mul(_, _)
Mul(a, b) ==
    IF a = <<>> \/ b = <<>> THEN <<>>
    ELSE Add(Mul(a, Front(b)) \o (IF Len(b) > 1 THEN <<0>> ELSE <<>>),
             MulSmall(a, Last(b)))

\* a * 2^k and floor(a / 2^k), in steps of 2^13 < Base
RECURSIVE MulPow2(_, _)
MulPow2(a, k) ==
    IF k = 0 \/ a = <<>> THEN a
    ELSE IF k >= 13 THEN MulPow2(MulSmall(a, 8192), k - 13)
    ELSE MulSmall(a, 2^k)

RECURSIVE DivPow2(_, _)
DivPow2(a, k) ==
    IF k = 0 \/ a = <<>> THEN a
    ELSE IF k >= 13 THEN DivPow2(DivSmall(a, 8192), k - 13)
    ELSE DivSmall(a, 2^k)

\* a * 10^k
RECURSIVE MulPow10(_, _)
MulPow10(a, k) ==
    IF k = 0 \/ a = <<>> THEN a
    ELSE IF k >= BaseDigits THEN MulPow10(a \o <<0>>, k - BaseDigits)
    ELSE MulSmall(a, 10^k)

One == <<1>>

\* The number written with the decimal digits ds
RECURSIVE FromDigits(_)
FromDigits(ds) ==
    IF ds = <<>> THEN <<>>
    ELSE Strip(MulAcc(FromDigits(Front(ds)), 10, Last(ds)))

\* The decimal digits of one limb, all BaseDigits of them
LimbDigits(x) == [k \in 1..BaseDigits |-> (x \div 10^(BaseDigits - k)) % 10]

\* The decimal digits of a, without leading zeros
RECURSIVE AllDigits(_)
AllDigits(a) ==
    IF a = <<>> THEN <<>> ELSE LimbDigits(Head(a)) \o AllDigits(Tail(a))

ToDigits(a) == Strip(AllDigits(a))

\* ------------------------------------------------------------------------
\* JavaScript numbers: IEEE 754 binary64, round to nearest, ties to even.
\* A finite number is (-1)^neg * m * 2^e with 2^52 <= m < 2^53, or zero
\* (m = 0, e = 0).  Magnitudes stay between 2^-1022 and 2^1024 in this model:
\* subnormals and overflow to Infinity are not represented.
\* ------------------------------------------------------------------------

Precision == 53

NaN == [nan |-> TRUE, neg |-> FALSE, m |-> <<>>, e |-> 0]

Zero == [nan |-> FALSE, neg |-> FALSE, m |-> <<>>, e |-> 0]

\* 2^52 and 2^53
MinMantissa == MulPow2(One, Precision - 1)

MantissaEnd == MulPow2(One, Precision)

\* Scale a or b by powers of two until b <= a < 2b; the ratio is then
\* (a/b) * 2^t.  (The scaled operand is bound to its value before the next
\* step, so that no step evaluates it again.)
RECURSIVE Normalize(_, _, _)
Normalize(a, b, t) ==
    IF Greater(b, a)
    THEN IF Greater(b, MulSmall(a, 8192))
         THEN CHOOSE nz \in { Normalize(a2, b, t - 13) :
                                 a2 \in {MulSmall(a, 8192)} } : TRUE
         ELSE CHOOSE nz \in { Normalize(a2, b, t - 1) : a2 \in {Twice(a)} } : TRUE
    ELSE IF ~Greater(Twice(b), a)
    THEN IF ~Greater(MulSmall(b, 8192), a)
         THEN CHOOSE nz \in { Normalize(a, b2, t + 13) :
                                 b2 \in {MulSmall(b, 8192)} } : TRUE
         ELSE CHOOSE nz \in { Normalize(a, b2, t + 1) : b2 \in {Twice(b)} } : TRUE
    ELSE [a |-> a, b |-> b, t |-> t]

\* The first n binary digits of r/b (r < 2b), appended to m, and what is left
RECURSIVE Quotient(_, _, _, _)
Quotient(r, b, n, m) ==
    IF n = 0 THEN [m |-> m, r |-> r]
    ELSE CHOOSE q \in
            { Quotient(r2, b, n - 1, m2) :
                 r2 \in {IF Greater(b, r) THEN Twice(r) ELSE Twice(Sub(r, b))},
                 m2 \in {Strip(MulAcc(m, 2, IF Greater(b, r) THEN 0 ELSE 1))} } :
            TRUE

\* The mantissa q.m rounded to nearest, ties to even, by the remainder q.r of
\* the division by b; t is the exponent of the leading binary digit
Finite(m, e) ==
    IF m = MantissaEnd
    THEN [nan |-> FALSE, neg |-> FALSE, m |-> MinMantissa, e |-> e + 1]
    ELSE [nan |-> FALSE, neg |-> FALSE, m |-> m, e |-> e]

\* The remainder r of a division by b is above one half, or is one half and
\* the mantissa m is odd
RoundsUp(m, r, b) == Greater(r, b) \/ (r = b /\ Last(m) % 2 = 1)

Rounded(q, b, t) ==
    Finite(IF RoundsUp(q.m, q.r, b) THEN Add(q.m, One) ELSE q.m,
           t - (Precision - 1))

RoundNormal(nz, s) ==
    CHOOSE x \in { Rounded(q, nz.b, nz.t + s) :
                      q \in {Quotient(nz.a, nz.b, Precision, <<>>)} } : TRUE

\* The number nearest to a * 2^s, for a natural number a whose leading binary
\* digit is 2^t: the digits below the mantissa are cut off and decide the
\* rounding
RoundNatural(a, t, s) ==
    IF t < Precision
    THEN [nan |-> FALSE, neg |-> FALSE,
          m |-> MulPow2(a, Precision - 1 - t), e |-> t + s - (Precision - 1)]
    ELSE CHOOSE x \in
            { Rounded([m |-> top, r |-> Twice(Sub(a, MulPow2(top, t - (Precision - 1))))],
                      MulPow2(One, t - (Precision - 1)), t + s) :
                 top \in {DivPow2(a, t - (Precision - 1))} } : TRUE

\* The number nearest to (a/b) * 2^s, for natural numbers a and b > 0
Nearest(a, b, s) ==
    IF a = <<>> THEN Zero
    ELSE CHOOSE x \in
            { IF b = One THEN RoundNatural(a, nz.t, s) ELSE RoundNormal(nz, s) :
                 nz \in {Normalize(a, b, 0)} } : TRUE

\* The operators below refer to each other through Compute, which holds the
\* one reference to each of them
RECURSIVE Compute(_, _)

\* The number nearest to (a/b) * 2^s, for natural numbers a and b > 0
RoundRatio(a, b, s) == Compute("RoundRatio", <<a, b, s>>)

\* The number of an integer literal
FromInt(n) ==
    LET r == RoundRatio(NatLimbs(IF n < 0 THEN -n ELSE n), One, 0)
    IN  [r EXCEPT !.neg = n < 0]

IsZero(x) == x.m = <<>>

\* x > 0
Positive(x) == ~x.nan /\ ~x.neg /\ x.m # <<>>

\* x > y, for numbers x, y >= 0
GreaterNum(x, y) ==
    IF IsZero(x) THEN FALSE
    ELSE IF IsZero(y) THEN TRUE
    ELSE x.e > y.e \/ (x.e = y.e /\ Greater(x.m, y.m))

\* x * y
Times(x, y) ==
    IF x.nan \/ y.nan THEN NaN
    ELSE IF IsZero(x) \/ IsZero(y) THEN Zero
    ELSE [RoundRatio(Mul(x.m, y.m), One, x.e + y.e)
             EXCEPT !.neg = (x.neg # y.neg)]

\* x / y, for y other than 0
Over(x, y) ==
    IF x.nan \/ y.nan THEN NaN
    ELSE IF IsZero(x) THEN Zero
    ELSE [RoundRatio(x.m, y.m, x.e - y.e) EXCEPT !.neg = (x.neg # y.neg)]

\* Math.floor(x) as a natural number, for x >= 0
Floor(x) ==
    IF x.e >= 0 THEN MulPow2(x.m, x.e) ELSE DivPow2(x.m, -x.e)


\* ------------------------------------------------------------------------
\* utils/formatters: strings and numbers
\* ------------------------------------------------------------------------

\* Number of decimals the form passes to truncateDecimals.
Decimals == 6

\* Length of the longest prefix of s made of digits.
RECURSIVE DigitPrefixLen(_)
DigitPrefixLen(s) ==
    IF s = <<>> THEN 0
    ELSE IF IsDigit(Head(s)) THEN 1 + DigitPrefixLen(Tail(s)) ELSE 0

Drop(s, n) == SubSeq(s, n + 1, Len(s))

DigitsOf(s) == [k \in 1..Len(s) |-> DigitOf(s[k])]

CharsOf(ds) == [k \in 1..Len(ds) |-> DigitChars[ds[k] + 1]]

\* A pattern that takes any run of digits and points
DigitsAndPoints(s) == \A k \in 1..Len(s) : IsDigit(s[k]) \/ s[k] = "."

\* The pattern /^\d*\.?\d*$/ of the amount handlers and of validateSwapAmount.
AmountPattern(s) ==
    LET rest == Drop(s, DigitPrefixLen(s))
    IN  \/ rest = <<>>
        \/ /\ Head(rest) = "."
           /\ DigitPrefixLen(Tail(rest)) = Len(Tail(rest))

RECURSIVE TrimLeft(_)
TrimLeft(s) ==
    IF s # <<>> /\ Head(s) = " " THEN TrimLeft(Tail(s)) ELSE s

RECURSIVE TrimRight(_)
TrimRight(s) ==
    IF s # <<>> /\ s[Len(s)] = " " THEN TrimRight(SubSeq(s, 1, Len(s) - 1)) ELSE s

Trim(s) == TrimRight(TrimLeft(s))

\* The digits after the point rest starts with, if it starts with one
FractionOf(rest) ==
    IF rest # <<>> /\ Head(rest) = "."
    THEN SubSeq(Tail(rest), 1, DigitPrefixLen(Tail(rest)))
    ELSE <<>>

\* max(e, 0)
PowerAbove(e) == IF e > 0 THEN e ELSE 0

\* The integer a run of digits denotes
RECURSIVE NatOf(_)
NatOf(ds) ==
    IF ds = <<>> THEN 0 ELSE 10 * NatOf(SubSeq(ds, 1, Len(ds) - 1)) + ds[Len(ds)]

\* rest without the sign it starts with, if it starts with one
Unsigned(rest) ==
    IF rest # <<>> /\ Head(rest) \in {"+", "-"} THEN Tail(rest) ELSE rest

\* The exponent digits denotes, under the sign signed starts with
SignedExponent(signed, digits) ==
    IF Head(signed) = "-" THEN -NatOf(DigitsOf(digits)) ELSE NatOf(DigitsOf(digits))

\* What follows the fraction rest starts with
AfterFraction(rest) ==
    IF rest # <<>> /\ Head(rest) = "."
    THEN Drop(Tail(rest), DigitPrefixLen(Tail(rest)))
    ELSE rest

\* The exponent part rest starts with ("e" or "E", an optional sign, digits):
\* its value, 0 without one
ExponentOf(rest) ==
    IF rest # <<>> /\ Head(rest) \in {"e", "E"}
          /\ DigitPrefixLen(Unsigned(Tail(rest))) > 0
    THEN SignedExponent(Tail(rest),
                        SubSeq(Unsigned(Tail(rest)), 1,
                               DigitPrefixLen(Unsigned(Tail(rest)))))
    ELSE 0

\* The number nearest to the decimal literal ip.fp with exponent ex
Literal(ip, fp, ex) ==
    IF ip = <<>> /\ fp = <<>>
    THEN NaN
    ELSE RoundRatio(MulPow10(FromDigits(DigitsOf(ip \o fp)), PowerAbove(ex)),
                    MulPow10(One, Len(fp) + PowerAbove(-ex)), 0)

\* The number nearest to the literal that starts with the n digits of s
LiteralAt(s, n) ==
    Literal(SubSeq(s, 1, n), FractionOf(Drop(s, n)),
            ExponentOf(AfterFraction(Drop(s, n))))

\* The number nearest to the literal at the start of s
NumberAt(s) == LiteralAt(s, DigitPrefixLen(s))

\* The number a string starts with, as parseFloat reads it: the number nearest
\* to the longest prefix "digits [. digits] [e [sign] digits]" (after leading
\* blanks); NaN when the digits and the fraction are both empty.  A sign in
\* front is not parsed: every caller in the form applies the amount pattern
\* first or passes an amount held by the form, which is never negative.
StringToNumber(str) == Compute("StringToNumber", <<str>>)

\* 10^21: from there on Number.prototype.toFixed answers with ToString
ToFixedLimit == RoundRatio(MulPow10(One, 21), One, 0)

\* Most digits ToString needs to tell a number from its neighbours
MaxSignificant == 17

RECURSIVE StripTrailing(_)
StripTrailing(ds) ==
    IF ds # <<>> /\ Last(ds) = 0 THEN StripTrailing(Front(ds)) ELSE ds

\* The integer v (with the digits ds) rounded to d significant digits
RoundedTo(ds, d) ==
    LET head == FromDigits(SubSeq(ds, 1, d))
    IN  MulPow10(IF d < Len(ds) /\ ds[d + 1] >= 5 THEN Add(head, One) ELSE head,
                 Len(ds) - d)

\* The least number of significant digits that reads back as x
RECURSIVE ShortestLen(_, _, _)
ShortestLen(x, ds, d) ==
    IF d >= MaxSignificant \/ d >= Len(ds)
          \/ RoundRatio(RoundedTo(ds, d), One, 0) = x
    THEN d
    ELSE ShortestLen(x, ds, d + 1)

\* The digits ds of x cut to the least number of them that reads back as x
Shortest(x, ds) == ToDigits(RoundedTo(ds, ShortestLen(x, ds, 1)))

\* The integer with the digits all in exponential notation: its significant
\* digits with a point after the first, then the exponent
Exponential(all) ==
    CharsOf(<<Head(all)>>)
      \o (IF Len(StripTrailing(all)) > 1
          THEN <<".">> \o CharsOf(Tail(StripTrailing(all))) ELSE <<>>)
      \o <<"e", "+">>
      \o CharsOf(ToDigits(NatLimbs(Len(all) - 1)))

\* Number::toString for x >= 10^21: the shortest digits that read back as x,
\* in exponential notation ("3.5e+24")
NumberToString(x) == Exponential(Shortest(x, ToDigits(MulPow2(x.m, x.e))))

\* floor(a / 2^k + 1/2)
HalfUp(a, k) == DivPow2(Add(Twice(a), MulPow2(One, k)), k + 1)

\* The integer n with n / 10^Decimals nearest to x, the larger on a tie
FixedInteger(x) ==
    IF x.e >= 0 THEN MulPow2(MulPow10(x.m, Decimals), x.e)
    ELSE HalfUp(MulPow10(x.m, Decimals), -x.e)

\* ds with zeros in front, up to n digits
PadLeft(ds, n) ==
    IF Len(ds) >= n THEN ds ELSE [k \in 1..(n - Len(ds)) |-> 0] \o ds

\* The digits ds as a string with a point before the last d of them
WithPoint(ds, d) ==
    CharsOf(SubSeq(ds, 1, Len(ds) - d)) \o <<".">>
      \o CharsOf(SubSeq(ds, Len(ds) - d + 1, Len(ds)))

\* Number.prototype.toFixed(Decimals) of x >= 0: below 10^21 the integer n
\* with n / 10^Decimals nearest to x (the larger on a tie), written with
\* Decimals fraction digits
toFixed(x) ==
    IF ~GreaterNum(ToFixedLimit, x) THEN NumberToString(x)
    ELSE WithPoint(PadLeft(ToDigits(FixedInteger(x)), Decimals + 1), Decimals)

\* Math.pow(10, decimals)
Multiplier == RoundRatio(MulPow10(One, Decimals), One, 0)

\* truncateDecimals(value, 6): Math.floor(value * multiplier) / multiplier,
\* then toFixed(6), for value >= 0
truncateDecimals(value) ==
    toFixed(RoundRatio(Floor(Times(value, Multiplier)),
                       MulPow10(One, Decimals), 0))

\* ------------------------------------------------------------------------
\* Bounds and input sets
\* ------------------------------------------------------------------------

\* Fetches of the price feed that may be in flight together
MaxInFlight == 2

\* User events (keystrokes and clicks) in a session
MaxEvents == 4

\* Polls of the price feed after the fetch on mount
MaxPolls == 1

\* Success-display timers that may be running together
MaxTimers == 2

Currencies == {"ETH", "USDC", "ZIL"}

\* Responses of the price feed: arrays of {currency, price}; priced = FALSE
\* stands for an entry without a price.
Feeds ==
    { << [currency |-> "ETH", priced |-> TRUE, price |-> 3500],
         [currency |-> "USDC", priced |-> TRUE, price |-> 1],
         [currency |-> "ZIL", priced |-> FALSE, price |-> 0] >>,
      << [currency |-> "ETH", priced |-> TRUE, price |-> 4000],
         [currency |-> "USDC", priced |-> TRUE, price |-> 1],
         [currency |-> "ZIL", priced |-> TRUE, price |-> 0] >> }

\* What the user may type into an amount field
WellFormedInputs == { <<>>, <<"0">>, <<"2">> }

MalformedInputs == { <<"1", "e", "5">> }

TypedInputs == WellFormedInputs \cup MalformedInputs

\* handleMaxAmount: mockBalance.toString()
MaxBalance == <<"1", "0">>

\* Amounts that pass the pattern of the amount handlers, among them the
\* in-progress forms "10." and ".5", the empty input, a lone point and .001,
\* whose counterpart in ETH is below 10^-6
\* 10^21 as the user types it: 1 and 21 zeros (the inputs carry no maxLength)
Sextillion == <<"1">> \o [k \in 1..21 |-> "0"]

\* 7000000000, below Number.MAX_SAFE_INTEGER
SevenBillion == <<"7">> \o [k \in 1..9 |-> "0"]

EditAmounts ==
    { <<>>, <<".">>, <<"0">>, <<"2">>, <<"1", "0", "0">>, <<"1", "0", ".">>,
      <<".", "5">>, <<"8", ".", "2">>, <<"0", ".", "7">>, <<".", "0", "0", "1">>,
      SevenBillion, Sextillion }

\* Inputs that fail the pattern: a letter, two points, an exponent, signs,
\* blanks
MalformedEdits ==
    { <<"a">>, <<"1", ".", "2", ".", "3">>, <<"1", "e", "5">>, <<"-", "1">>,
      <<"+", "1">>, <<" ">>, <<"1", " ">> }

EditInputs == EditAmounts \cup MalformedEdits

\* 9007199254740993, above Number.MAX_SAFE_INTEGER
Oversized ==
    <<"9", "0", "0", "7", "1", "9", "9", "2", "5", "4", "7", "4", "0", "9",
      "9", "3">>

\* From amounts that must not be submitted
InvalidSubmitAmounts ==
    { <<>>, <<" ">>, <<"0">>, <<".">>, <<"1", "e", "5">>, Oversized }

\* From amounts that may be submitted
ValidSubmitAmounts == { <<"2">>, <<"1", "0", ".">> }

SubmitAmounts == InvalidSubmitAmounts \cup ValidSubmitAmounts

\* ------------------------------------------------------------------------
\* The price table, the exchange rate and the two conversions of the form
\* ------------------------------------------------------------------------

Range(f) == { f[x] : x \in DOMAIN f }

\* A function as a table: every value computed once, then looked up
Table(f) == f @@ <<>>

\* The table of every entry of the feed, priced or not
pricesMapUnfiltered(data) ==
    [c \in { data[k].currency : k \in 1..Len(data) } |->
        data[CHOOSE k \in 1..Len(data) :
                /\ data[k].currency = c
                /\ \A j \in 1..Len(data) : data[j].currency = c => j <= k].price]

\* validTokens and pricesMap, useTokenPrices lines 76-82 (a later entry of a
\* currency wins)
pricesMap(data) ==
    LET valid == { k \in 1..Len(data) : data[k].priced }
    IN  [c \in { data[k].currency : k \in valid } |->
            data[CHOOSE k \in valid :
                    /\ data[k].currency = c
                    /\ \A j \in valid : data[j].currency = c => j <= k].price]

\* JavaScript truthiness of prices[c]: present and not 0
Truthy(pr, c) == c \in DOMAIN pr /\ pr[c] # 0

\* fromPrice / toPrice for the prices one response of the feed can put into
\* the table together, each computed once
PriceQuotients ==
    Table([pq \in UNION { (Range(pricesMap(data)) \ {0})
                             \X (Range(pricesMap(data)) \ {0}) : data \in Feeds } |->
              Over(FromInt(pq[1]), FromInt(pq[2]))])

\* fromPrice / toPrice
PriceQuotient(fromPrice, toPrice) == Compute("PriceQuotient", <<fromPrice, toPrice>>)

\* No rate: the 0 the memo returns when a price is missing or 0
ZeroRate == Zero

\* useMemo of exchangeRate, CurrencySwapForm lines 35-42
ExchangeRate(fd, pr) ==
    IF Truthy(pr, fd.fromToken) /\ Truthy(pr, fd.toToken)
    THEN PriceQuotient(pr[fd.fromToken], pr[fd.toToken])
    ELSE ZeroRate

\* exchangeRate > 0
RatePos(r) == Positive(r)

\* getExchangeRate of useTokenPrices, token.types.ts lines 120-125: <<>> for
\* null, <<rate>> otherwise
getExchangeRate(fromCurrency, toCurrency, pr) ==
    IF \/ fromCurrency = "" \/ toCurrency = ""
       \/ ~Truthy(pr, fromCurrency) \/ ~Truthy(pr, toCurrency)
    THEN <<>>
    ELSE <<PriceQuotient(pr[fromCurrency], pr[toCurrency])>>

\* Object.is on the two numbers (the dependency check of useEffect)
SameRate(r1, r2) == r1 = r2

\* The counterpart formatted whatever its sign
ShownAlways(converted) == truncateDecimals(converted)

\* converted > 0 ? truncateDecimals(converted, 6) : ''
Shown(converted) ==
    IF Positive(converted) THEN truncateDecimals(converted) ELSE <<>>

Fields == {"from", "to"}

\* The counterpart of a field that holds the number numValue: the To amount
\* for the From field (numValue * exchangeRate), the From amount for the To
\* field (numValue / exchangeRate, for a rate above 0)
Converted(numValue, rate, field) == Compute("Converted", <<numValue, rate, field>>)

\* numValue * exchangeRate for the From field, numValue / exchangeRate (0 for
\* a rate that is not above 0) for the To field
Scaled(numValue, rate, field) ==
    IF field = "from" THEN Times(numValue, rate)
    ELSE IF RatePos(rate) THEN Over(numValue, rate) ELSE Zero

\* The rates of the feeds, the amounts the user can enter and the amounts the
\* form shows for them; their numbers and counterparts are computed once and
\* looked up afterwards (any other amount is computed where it occurs)
FeedRates == Range(PriceQuotients) \cup {ZeroRate}

EnteredAmounts == (WellFormedInputs \cup {MaxBalance}) \ {<<>>}

ConversionsOf(amounts) ==
    Table([k \in amounts \X FeedRates \X Fields |->
              Converted(StringToNumber(k[1]), k[2], k[3])])

ShownAmounts == Range(ConversionsOf(EnteredAmounts)) \ {<<>>}

Conversions ==
    ConversionsOf(EnteredAmounts \cup ShownAmounts \cup (EditAmounts \ {<<>>}))

Numbers ==
    Table([str \in EnteredAmounts \cup Range(Conversions) \cup SubmitAmounts |->
              StringToNumber(str)])

\* parseFloat(str)
parseFloat(str) == Compute("parseFloat", <<str>>)

\* isNaN(parsed) ? 0 : parsed
ZeroIfNaN(parsed) == IF parsed.nan THEN Zero ELSE parsed

\* parseNumber(value), formatters lines 47-50
parseNumber(value) == ZeroIfNaN(parseFloat(value))

\* lines 68-74: the counterpart written by handleFromAmountChange
ToFromFrom(value, rate) == Compute("Conversion", <<value, rate, "from">>)

\* lines 87-93: the counterpart written by handleToAmountChange
FromFromTo(value, rate) == Compute("Conversion", <<value, rate, "to">>)

\* The entry of a table under a key, or the value computed for a key the table
\* does not hold
Lookup(table, key, computed) ==
    IF key \in DOMAIN table THEN table[key] ELSE computed

Compute(f, x) ==
    CASE f = "RoundRatio" -> Nearest(x[1], x[2], x[3])
      [] f = "StringToNumber" -> NumberAt(TrimLeft(x[1]))
      [] f = "Converted" -> Shown(Scaled(x[1], x[2], x[3]))
      [] f = "PriceQuotient" ->
            Lookup(PriceQuotients, x, Over(FromInt(x[1]), FromInt(x[2])))
      [] f = "parseFloat" -> Lookup(Numbers, x[1], StringToNumber(x[1]))
      [] f = "Conversion" ->
            Lookup(Conversions, x, Converted(parseNumber(x[1]), x[2], x[3]))

\* ------------------------------------------------------------------------
\* utils/validators
\* ------------------------------------------------------------------------

\* Number.MAX_SAFE_INTEGER = 9007199254740991
MaxSafeInteger ==
    RoundRatio(FromDigits(<<9, 0, 0, 7, 1, 9, 9, 2, 5, 4, 7, 4, 0, 9, 9, 1>>),
               One, 0)

\* null: no validation error, no swap error
Null == "null"

\* A validator that accepts 0 (numValue < 0 where the code has numValue <= 0)
validateSwapAmountNonNegative(amount) ==
    IF amount = <<>> \/ Trim(amount) = <<>> THEN "Amount is required"
    ELSE IF ~AmountPattern(amount) THEN "Please enter a valid number"
    ELSE LET numValue == parseFloat(amount)
         IN  IF numValue.nan
             THEN "Amount must be greater than 0"
             ELSE IF GreaterNum(numValue, MaxSafeInteger)
             THEN "Amount is too large"
             ELSE Null

\* validateSwapAmount(amount, field): the message, or Null
validateSwapAmount(amount) ==
    IF amount = <<>> \/ Trim(amount) = <<>> THEN "Amount is required"
    ELSE IF ~AmountPattern(amount) THEN "Please enter a valid number"
    ELSE LET numValue == parseFloat(amount)
         IN  IF numValue.nan \/ ~Positive(numValue)
             THEN "Amount must be greater than 0"
             ELSE IF GreaterNum(numValue, MaxSafeInteger)
             THEN "Amount is too large"
             ELSE Null

\* A validator that lets equal tokens through
validateTokensAny(fromToken, toToken) == Null

\* validateTokensDifferent(fromToken, toToken)
validateTokensDifferent(fromToken, toToken) ==
    IF fromToken = toToken THEN "Cannot swap the same token" ELSE Null

\* ------------------------------------------------------------------------
\* State
\* ------------------------------------------------------------------------

VARIABLES
    formData,          \* useState: fromToken, toToken, fromAmount, toAmount
    error,             \* useState: the form's own error message, "" for none
    lastUpdatedField,  \* useState: "from" or "to"
    showSuccess,       \* useState
    prices,            \* useTokenPrices: currency -> price (tokens = its domain)
    loading,           \* useTokenPrices
    fetchError,        \* useTokenPrices: error is set
    inFlight,          \* fetchPrices calls awaiting their response
    pending,           \* those calls in the order they started: TRUE for one
                       \* started before a call that has been answered
    stale,             \* the last response processed belonged to such a call
    polls,             \* ticks of setInterval(fetchPrices, 30000) so far
    events,            \* user events handled so far
    isSwapping,        \* useSwap
    swapError,         \* useSwap: message or Null
    lastTransaction,   \* useSwap
    swaps,             \* executeSwap calls awaiting their timeout, with the
                       \* arguments each one captured
    timers,            \* setTimeout(() => setShowSuccess(false), 3000) running
    depRate,           \* exchangeRate seen by the last run of the rate effect
    effect,            \* the rate effect scheduled by a render and not yet
                       \* run, with the values its closure captured
    mounted,           \* useTokenPrices: its effect has run and its cleanup
                       \* (clearInterval) has not
    flush,             \* "none"; "now": an event handler has run since the
                       \* effect was scheduled, the effect runs before anything
                       \* else; "max": as "now", but the MAX button can still
                       \* be clicked first
    step,              \* the operation that produced the state
    input,             \* Sol1.js: the argument of the three sum_to_n calls
    pc,                \* Sol1.js: the call that is running
    i,                 \* sum_to_n_b: its loop variable
    sum,               \* sum_to_n_b: its accumulator
    frames,            \* sum_to_n_c: the arguments of the calls on the stack
    returned,          \* sum_to_n_c: the value the last call returned
    results,           \* Sol1.js: implementation -> the value it returned
    balances,          \* WalletPage: what useWalletBalances() returned
    formattedBalances  \* WalletPage: the useMemo value, <<list>> once computed

vars == <<formData, error, lastUpdatedField, showSuccess, prices, loading,
          fetchError, inFlight, polls, events, isSwapping, swapError, lastTransaction, swaps,
          timers, depRate, effect, flush, step, mounted,
          input, pc, i, sum, frames, returned, results,
          balances, formattedBalances, pending, stale>>

priceVars == <<prices, loading, fetchError, inFlight, polls>>
swapVars == <<isSwapping, swapError, lastTransaction, swaps, timers, showSuccess>>

\* What no operation of the mounted form writes
elsewhere == <<mounted, input, pc, i, sum, frames, returned, results,
               balances, formattedBalances, pending, stale>>

\* What neither the form nor a fetch writes
offFeed == <<mounted, input, pc, i, sum, frames, returned, results,
             balances, formattedBalances>>

\* The swap form's own state
formVars == <<formData, error, lastUpdatedField, showSuccess, prices, loading,
              fetchError, inFlight, polls, events, isSwapping, swapError,
              lastTransaction, swaps, timers, depRate, effect, flush, mounted,
              pending, stale>>

sumVars == <<input, pc, i, sum, frames, returned, results>>
walletVars == <<balances, formattedBalances>>

\* Sol1.js is not running
SumIdle ==
    /\ input = 0
    /\ pc = "idle"
    /\ i = 0
    /\ sum = 0
    /\ frames = <<>>
    /\ returned = 0
    /\ results = <<>>

\* No wallet page is rendered
WalletIdle ==
    /\ balances = <<>>
    /\ formattedBalances = <<>>

\* No effect scheduled; a scheduled one is <<closure>>
NoEffect == <<>>

\* lastTransaction is null; a recorded one is <<transaction>>
NoTransaction == <<>>

Other(field) == IF field = "from" THEN "to" ELSE "from"

\* ------------------------------------------------------------------------
\* The rate effect, CurrencySwapForm lines 124-142
\* ------------------------------------------------------------------------

\* What the effect's closure holds: the values of the render that scheduled it
Closure(fd, luf, rate) ==
    [fromAmount |-> fd.fromAmount, toAmount |-> fd.toAmount,
     lastUpdatedField |-> luf, exchangeRate |-> rate]

\* The effect queues an update (its conditions hold)
EffectActs(c) ==
    /\ RatePos(c.exchangeRate)
    /\ \/ c.lastUpdatedField = "from" /\ c.fromAmount # <<>>
       \/ c.lastUpdatedField = "to" /\ c.toAmount # <<>>

\* An effect that writes back the amounts its closure captured together with
\* the counterpart it computed, instead of merging into the latest state
EffectUpdateSnapshot(c, prev) ==
    IF RatePos(c.exchangeRate)
    THEN IF c.lastUpdatedField = "from" /\ c.fromAmount # <<>>
         THEN [prev EXCEPT !.fromAmount = c.fromAmount,
                           !.toAmount =
                   ToFromFrom(c.fromAmount, c.exchangeRate)]
         ELSE IF c.lastUpdatedField = "to" /\ c.toAmount # <<>>
         THEN [prev EXCEPT !.toAmount = c.toAmount,
                           !.fromAmount =
                   FromFromTo(c.toAmount, c.exchangeRate)]
         ELSE prev
    ELSE prev

\* The effect body: the update it queues, applied to the latest state prev
EffectUpdate(c, prev) ==
    IF RatePos(c.exchangeRate)
    THEN IF c.lastUpdatedField = "from" /\ c.fromAmount # <<>>
         THEN [prev EXCEPT !.toAmount =
                   ToFromFrom(c.fromAmount, c.exchangeRate)]
         ELSE IF c.lastUpdatedField = "to" /\ c.toAmount # <<>>
         THEN [prev EXCEPT !.fromAmount =
                   FromFromTo(c.toAmount, c.exchangeRate)]
         ELSE prev
    ELSE prev

\* A render at the exchange rate `rate`
RenderAt(fd, luf, rate, sync, dep) ==
    IF SameRate(rate, dep)
    THEN [formData |-> fd, effect |-> NoEffect, depRate |-> dep]
    ELSE IF sync
    THEN [formData |-> EffectUpdate(Closure(fd, luf, rate), fd),
          effect |-> NoEffect, depRate |-> rate]
    ELSE [formData |-> fd,
          effect |-> IF EffectActs(Closure(fd, luf, rate))
                     THEN <<Closure(fd, luf, rate)>> ELSE NoEffect,
          depRate |-> rate]

\* A render of the form with state (fd, luf) and price table pr.  When the
\* exchange rate differs from dep, the one the effect last saw, the effect is
\* scheduled with this render's values.  React 18 runs the effects of a render
\* caused by a discrete user event (sync) before the event returns; the
\* effects of any other render run later, as a task of their own (an effect
\* that queues no update is not kept: running it changes nothing).
Render(fd, luf, pr, sync, dep) ==
    RenderAt(fd, luf, ExchangeRate(fd, pr), sync, dep)

\* The render r of a discrete event is on screen, its effect has run
Rendered(r) == formData' = r.formData /\ depRate' = r.depRate

\* The render r is on screen, its effect is scheduled
Scheduled(r) ==
    /\ formData' = r.formData
    /\ effect' = r.effect
    /\ depRate' = r.depRate

\* The end of a discrete event handler that leaves the form as (fd, luf):
\* React renders before the event returns, and runs a scheduled effect first.
Commit(fd, luf) ==
    IF effect = NoEffect
    THEN /\ Rendered(Render(fd, luf, prices, TRUE, depRate))
         /\ UNCHANGED <<effect, flush>>
    ELSE /\ formData' = fd
         /\ flush' = "now"
         /\ UNCHANGED <<depRate, effect>>

\* One more user event is handled
UserEvent == events < MaxEvents /\ events' = events + 1

\* The form is on screen and the last render is the current state
FormShown == ~loading /\ flush = "none"

\* The inputs, the token selectors and the swap button are enabled
ControlsEnabled == FormShown /\ ~isSwapping

Init ==
    /\ formData = [fromToken |-> "ETH", toToken |-> "USDC",
                   fromAmount |-> <<>>, toAmount |-> <<>>]
    /\ error = ""
    /\ lastUpdatedField = "from"
    /\ showSuccess = FALSE
    /\ prices = <<>>
    /\ loading = TRUE
    /\ fetchError = FALSE
    /\ inFlight = 1
    /\ pending = <<FALSE>>
    /\ stale = FALSE
    /\ polls = 0
    /\ events = 0
    /\ isSwapping = FALSE
    /\ swapError = Null
    /\ lastTransaction = NoTransaction
    /\ swaps = <<>>
    /\ timers = 0
    /\ depRate = ZeroRate
    /\ effect = NoEffect
    /\ flush = "none"
    /\ step = "Init"
    /\ mounted = TRUE
    /\ SumIdle
    /\ WalletIdle

\* ------------------------------------------------------------------------
\* Event handlers of the form
\* ------------------------------------------------------------------------

\* handleFromAmountChange(value), lines 58-76
handleFromAmountChange(value) ==
    IF value # <<>> /\ ~AmountPattern(value)
    THEN /\ error' = "Please enter a valid number"
         /\ UNCHANGED lastUpdatedField
         /\ Commit(formData, lastUpdatedField)
         /\ step' = "EditRejected"
    ELSE /\ error' = ""
         /\ lastUpdatedField' = "from"
         /\ Commit([formData EXCEPT
                       !.fromAmount = value,
                       !.toAmount = ToFromFrom(value, ExchangeRate(formData, prices))],
                   "from")
         /\ step' = "EditFrom"

\* handleToAmountChange(value), lines 78-95
handleToAmountChange(value) ==
    IF value # <<>> /\ ~AmountPattern(value)
    THEN /\ error' = "Please enter a valid number"
         /\ UNCHANGED lastUpdatedField
         /\ Commit(formData, lastUpdatedField)
         /\ step' = "EditRejected"
    ELSE /\ error' = ""
         /\ lastUpdatedField' = "to"
         /\ Commit([formData EXCEPT
                       !.toAmount = value,
                       !.fromAmount = FromFromTo(value, ExchangeRate(formData, prices))],
                   "to")
         /\ step' = "EditTo"

\* The user types into the From input (disabled while swapping)
EditFrom ==
    /\ ControlsEnabled
    /\ UserEvent
    /\ \E value \in TypedInputs : handleFromAmountChange(value)
    /\ UNCHANGED <<elsewhere, priceVars, swapVars>>

\* The user types into the To input (disabled while swapping)
EditTo ==
    /\ ControlsEnabled
    /\ UserEvent
    /\ \E value \in TypedInputs : handleToAmountChange(value)
    /\ UNCHANGED <<elsewhere, priceVars, swapVars>>

\* handleMaxAmount, lines 181-185: the MAX button is never disabled.  It can
\* also be clicked between a settlement's resolution and the render after it.
MaxAmount ==
    /\ ~loading
    /\ flush \in {"none", "max"}
    /\ UserEvent
    /\ handleFromAmountChange(MaxBalance)
    /\ UNCHANGED <<elsewhere, priceVars, swapVars>>

\* A handler that also empties the To amount
handleFromTokenChangeReset(prev, currency) ==
    [prev EXCEPT !.fromToken = currency, !.toAmount = <<>>]

\* The updater of handleFromTokenChange, lines 98-103
handleFromTokenChange(prev, currency) == [prev EXCEPT !.fromToken = currency]

\* The updater of handleToTokenChange, lines 105-110
handleToTokenChange(prev, currency) == [prev EXCEPT !.toToken = currency]

\* handleFromTokenChange / handleToTokenChange, lines 98-110; the selector
\* (TokenSelector, filteredTokens) offers the tokens of the feed but `exclude`
TokenChange ==
    /\ ControlsEnabled
    /\ UserEvent
    /\ \E field \in {"from", "to"} : \E currency \in DOMAIN prices :
          /\ currency # (IF field = "from" THEN formData.toToken
                                           ELSE formData.fromToken)
          /\ Commit(IF field = "from"
                    THEN handleFromTokenChange(formData, currency)
                    ELSE handleToTokenChange(formData, currency),
                    lastUpdatedField)
          /\ step' = IF field = "from" THEN "TokenFrom" ELSE "TokenTo"
    /\ UNCHANGED <<elsewhere, error, lastUpdatedField, priceVars, swapVars>>

\* The form handleSwapTokens writes, lines 114-119
SwappedForm(fd) ==
    [fromToken |-> fd.toToken,
     toToken |-> fd.fromToken,
     fromAmount |-> fd.toAmount,
     toAmount |-> fd.fromAmount]

\* handleSwapTokens, lines 113-121
handleSwapTokens ==
    /\ lastUpdatedField' = Other(lastUpdatedField)
    /\ Commit(SwappedForm(formData), Other(lastUpdatedField))
    /\ step' = "Swap"
    /\ UNCHANGED <<elsewhere, error, priceVars, swapVars>>

SwapTokens ==
    /\ ControlsEnabled
    /\ UserEvent
    /\ handleSwapTokens

\* The rate effect runs (lines 124-142), then React renders its update
RunEffect ==
    /\ effect # NoEffect
    /\ Rendered(Render(EffectUpdate(effect[1], formData), lastUpdatedField,
                       prices, TRUE, depRate))
    /\ effect' = NoEffect
    /\ flush' = "none"
    /\ step' = IF flush = "none" THEN "Effect" ELSE "Flush"
    /\ UNCHANGED <<elsewhere, events, error, lastUpdatedField, priceVars, swapVars>>

\* ------------------------------------------------------------------------
\* Submit: handleSubmit (lines 145-178) and useSwap.executeSwap
\* ------------------------------------------------------------------------

\* executeSwap up to its await: setIsSwapping(true), setError(null); the call
\* keeps the formData and exchangeRate it was given
executeSwapStart(fd, rate) ==
    /\ isSwapping' = TRUE
    /\ swapError' = Null
    /\ swaps' = Append(swaps, [formData |-> fd, exchangeRate |-> rate])

\* handleSubmit up to its await
handleSubmit ==
    LET amountValidation == validateSwapAmount(formData.fromAmount)
        tokenValidation  == validateTokensDifferent(formData.fromToken,
                                                    formData.toToken)
    IN  /\ IF amountValidation # Null
           THEN /\ error' = amountValidation
                /\ step' = "SubmitInvalid"
                /\ UNCHANGED <<isSwapping, swapError, swaps>>
           ELSE IF tokenValidation # Null
           THEN /\ error' = tokenValidation
                /\ step' = "SubmitInvalid"
                /\ UNCHANGED <<isSwapping, swapError, swaps>>
           ELSE /\ error' = ""
                /\ executeSwapStart(formData, ExchangeRate(formData, prices))
                /\ step' = "Submit"
        /\ Commit(formData, lastUpdatedField)
        /\ UNCHANGED <<elsewhere, lastUpdatedField, priceVars, lastTransaction, timers,
                       showSuccess>>

\* A submit button that is not disabled while a swap is in flight
SubmitDisabledIdle ==
    \/ formData.fromAmount = <<>>
    \/ ~Positive(parseNumber(formData.fromAmount))
    \/ IsZero(ExchangeRate(formData, prices))

\* A submit button that does not look at the exchange rate
SubmitDisabledAnyRate ==
    \/ isSwapping
    \/ formData.fromAmount = <<>>
    \/ ~Positive(parseNumber(formData.fromAmount))

\* The submit button's disabled condition, lines 309-314
SubmitDisabled ==
    \/ isSwapping
    \/ formData.fromAmount = <<>>
    \/ ~Positive(parseNumber(formData.fromAmount))
    \/ IsZero(ExchangeRate(formData, prices))

\* The user clicks the submit button
Submit ==
    /\ FormShown
    /\ ~SubmitDisabled
    /\ timers < MaxTimers
    /\ UserEvent
    /\ handleSubmit

\* A transaction built from the form and the table at the time of settlement
TransactionNow(call) ==
    [fromToken |-> formData.fromToken,
     toToken |-> formData.toToken,
     fromAmount |-> parseFloat(formData.fromAmount),
     toAmount |-> parseFloat(formData.toAmount),
     exchangeRate |-> ExchangeRate(formData, prices),
     status |-> "completed"]

\* The transaction executeSwap builds, useSwap lines 183-192
Transaction(call) ==
    [fromToken |-> call.formData.fromToken,
     toToken |-> call.formData.toToken,
     fromAmount |-> parseFloat(call.formData.fromAmount),
     toAmount |-> parseFloat(call.formData.toAmount),
     exchangeRate |-> call.exchangeRate,
     status |-> "completed"]

\* A reset that clears the From amount only
ResetFromOnly(fd) == [fd EXCEPT !.fromAmount = <<>>]

\* The form handleSubmit writes after a successful swap, lines 168-172
ResetForm(fd) == [fd EXCEPT !.fromAmount = <<>>, !.toAmount = <<>>]

\* The settlement resolves: executeSwap returns the transaction and
\* handleSubmit continues after its await (one batch of updates)
SettleOk ==
    /\ swaps # <<>>
    /\ flush = "none"
    /\ LET call == Head(swaps)
       IN  /\ lastTransaction' = <<Transaction(call)>>
           /\ IF effect = NoEffect
              THEN /\ Scheduled(Render(ResetForm(call.formData),
                                        lastUpdatedField, prices, FALSE, depRate))
                   /\ UNCHANGED flush
              ELSE /\ formData' = ResetForm(call.formData)
                   /\ flush' = "max"
                   /\ UNCHANGED <<effect, depRate>>
    /\ swaps' = Tail(swaps)
    /\ isSwapping' = FALSE
    /\ showSuccess' = TRUE
    /\ timers' = timers + 1
    /\ step' = "SettleOk"
    /\ UNCHANGED <<elsewhere, events, error, lastUpdatedField, swapError, priceVars>>

\* A failed settlement that records a transaction of its own
SettleFailRecorded ==
    /\ swaps # <<>>
    /\ effect = NoEffect
    /\ swaps' = Tail(swaps)
    /\ swapError' = "Transaction failed. Please try again."
    /\ isSwapping' = FALSE
    /\ lastTransaction' = <<[Transaction(Head(swaps)) EXCEPT !.status = "failed"]>>
    /\ step' = "SettleFail"
    /\ UNCHANGED <<elsewhere, events, formData, error, lastUpdatedField, showSuccess,
                   timers, depRate, effect, flush, priceVars>>

\* executeSwap without its finally: a failed settlement leaves isSwapping set
SettleFailStuck ==
    /\ swaps # <<>>
    /\ effect = NoEffect
    /\ swaps' = Tail(swaps)
    /\ swapError' = "Transaction failed. Please try again."
    /\ step' = "SettleFail"
    /\ UNCHANGED <<elsewhere, events, formData, error, lastUpdatedField, showSuccess,
                   isSwapping, lastTransaction, timers, depRate, effect, flush,
                   priceVars>>

\* The settlement fails: executeSwap's catch and finally; handleSubmit's catch
\* does nothing
SettleFail ==
    /\ swaps # <<>>
    /\ effect = NoEffect
    /\ swaps' = Tail(swaps)
    /\ swapError' = "Transaction failed. Please try again."
    /\ isSwapping' = FALSE
    /\ step' = "SettleFail"
    /\ UNCHANGED <<elsewhere, events, formData, error, lastUpdatedField, showSuccess,
                   lastTransaction, timers, depRate, effect, flush, priceVars>>

\* setTimeout(() => setShowSuccess(false), 3000) fires
TimerExpire ==
    /\ timers > 0
    /\ effect = NoEffect
    /\ timers' = timers - 1
    /\ showSuccess' = FALSE
    /\ step' = "Timer"
    /\ UNCHANGED <<elsewhere, events, formData, error, lastUpdatedField, isSwapping, swapError,
                   lastTransaction, swaps, depRate, effect, flush, priceVars>>

\* ------------------------------------------------------------------------
\* useTokenPrices: fetchPrices and its polling
\* ------------------------------------------------------------------------

\* The list without its k-th entry
Without(list, k) == SubSeq(list, 1, k - 1) \o SubSeq(list, k + 1, Len(list))

\* The response of the k-th pending call is processed, whichever call it is:
\* fetchPrices carries no sequence number and nothing aborts a call (lines
\* 62-104). The calls started before it are from now on behind an answered
\* one.
Answered(k) ==
    /\ pending' = [j \in 1..(Len(pending) - 1) |->
                      IF j < k THEN TRUE ELSE pending[j + 1]]
    /\ stale' = pending[k]

\* fetchPrices starts (on mount, then every 30 s): setLoading(true)
PollTick ==
    /\ inFlight < MaxInFlight
    /\ polls < MaxPolls
    /\ effect = NoEffect
    /\ inFlight' = inFlight + 1
    /\ pending' = Append(pending, FALSE)
    /\ UNCHANGED stale
    /\ polls' = polls + 1
    /\ loading' = TRUE
    /\ step' = "Poll"
    /\ UNCHANGED <<offFeed, events, formData, error, lastUpdatedField, prices, fetchError,
                   depRate, effect, flush, swapVars>>

\* A fetch succeeds, lines 73-94 and 102; the form renders with the new table
FetchOk ==
    /\ mounted
    /\ inFlight > 0
    /\ effect = NoEffect
    /\ \E data \in Feeds :
          /\ prices' = pricesMap(data)
          /\ Scheduled(Render(formData, lastUpdatedField, pricesMap(data), FALSE,
                              depRate))
    /\ fetchError' = FALSE
    /\ loading' = FALSE
    /\ inFlight' = inFlight - 1
    /\ \E k \in 1..Len(pending) : Answered(k)
    /\ step' = "FetchOk"
    /\ UNCHANGED <<offFeed, events, error, lastUpdatedField, flush, polls, swapVars>>

\* The table is left as the last successful fetch wrote it
KeptPrices(pr) == pr

\* setPrices({}) of the catch, line 100: the table after a failed fetch,
\* whatever table pr the hook held
ClearedPrices(pr) == <<>>

\* A fetch fails, lines 95-102: the table is emptied
FetchFail ==
    /\ mounted
    /\ inFlight > 0
    /\ effect = NoEffect
    /\ prices' = ClearedPrices(prices)
    /\ Scheduled(Render(formData, lastUpdatedField, ClearedPrices(prices), FALSE,
                        depRate))
    /\ fetchError' = TRUE
    /\ loading' = FALSE
    /\ inFlight' = inFlight - 1
    /\ \E k \in 1..Len(pending) : Answered(k)
    /\ step' = "FetchFail"
    /\ UNCHANGED <<offFeed, events, error, lastUpdatedField, flush, polls, swapVars>>

Next ==
    \/ EditFrom
    \/ EditTo
    \/ MaxAmount
    \/ TokenChange
    \/ SwapTokens
    \/ RunEffect
    \/ Submit
    \/ SettleOk
    \/ SettleFail
    \/ TimerExpire
    \/ PollTick
    \/ FetchOk
    \/ FetchFail

Spec == Init /\ [][Next]_vars

\* The form with the scheduling the code relies on: React runs a scheduled
\* effect, and the timeout executeSwap awaits (useSwap line 176) fires, so a
\* settlement in flight resolves or fails
SpecLive ==
    Spec /\ WF_vars(RunEffect) /\ WF_vars(SettleOk \/ SettleFail)

\* ------------------------------------------------------------------------
\* useTokenPrices from mount to unmount: the interval ticks as long as the
\* hook is mounted (its ticks are not counted here); the form selects among
\* the tokens of the hook and holds no amounts
\* ------------------------------------------------------------------------

\* The interval of line 109 is never cleared
IntervalLeaked(m) == TRUE

\* The hook is never polled after the fetch on mount
IntervalNever(m) == FALSE

\* setInterval(fetchPrices, 30000) is running: set at mount (line 109),
\* cleared by the effect's cleanup (line 111)
IntervalRunning(m) == m

\* The interval fires: fetchPrices starts, setLoading(true)
Interval ==
    /\ IntervalRunning(mounted)
    /\ inFlight < MaxInFlight
    /\ effect = NoEffect
    /\ inFlight' = inFlight + 1
    /\ pending' = Append(pending, FALSE)
    /\ UNCHANGED stale
    /\ loading' = TRUE
    /\ step' = "Poll"
    /\ UNCHANGED <<offFeed, events, formData, error, lastUpdatedField, prices,
                   fetchError, polls, depRate, effect, flush, swapVars>>

\* The component unmounts: the cleanup of line 111 runs, clearInterval
Unmount ==
    /\ mounted
    /\ mounted' = FALSE
    /\ step' = "Unmount"
    /\ UNCHANGED <<sumVars, walletVars, pending, stale, events, formData, error,
                   lastUpdatedField, priceVars, depRate, effect, flush, swapVars>>

\* A fetch started before the unmount completes, lines 73-102: its setTokens,
\* setPrices, setError and setLoading address a component that is unmounted,
\* and React 18 drops such updates
FetchDropped ==
    /\ ~mounted
    /\ inFlight > 0
    /\ inFlight' = inFlight - 1
    /\ \E k \in 1..Len(pending) : pending' = Without(pending, k)
    /\ step' = "FetchDropped"
    /\ UNCHANGED <<offFeed, stale, events, formData, error, lastUpdatedField, prices,
                   loading, fetchError, polls, depRate, effect, flush, swapVars>>

\* The user selects a token among those the hook lists
SelectToken ==
    /\ mounted
    /\ TokenChange

NextStore ==
    \/ Interval
    \/ SelectToken
    \/ FetchOk
    \/ FetchFail
    \/ Unmount
    \/ FetchDropped

\* Fairness: the interval keeps firing while it is running (setInterval), and
\* of the fetches that keep being in flight one succeeds
SpecStore == Init /\ [][NextStore]_vars /\ WF_vars(Interval) /\ SF_vars(FetchOk)

\* ------------------------------------------------------------------------
\* handleSubmit on its own: the handler is called on any form state, without
\* the button's disabled condition and the selector's exclusion in front of
\* it (its validation is the form's last check)
\* ------------------------------------------------------------------------

InitSubmit ==
    /\ formData \in [fromToken : Currencies, toToken : Currencies,
                     fromAmount : SubmitAmounts,
                     toAmount : { <<>>, <<"2">> }]
    /\ error = ""
    /\ lastUpdatedField \in {"from", "to"}
    /\ showSuccess = FALSE
    /\ prices \in { pricesMap(data) : data \in Feeds }
    /\ loading = FALSE
    /\ fetchError = FALSE
    /\ inFlight = 0
    /\ pending = <<>>
    /\ stale = FALSE
    /\ polls = 0
    /\ events = 0
    /\ isSwapping = FALSE
    /\ swapError = Null
    /\ lastTransaction = NoTransaction
    /\ swaps = <<>>
    /\ timers = 0
    /\ depRate = ExchangeRate(formData, prices)
    /\ effect = NoEffect
    /\ flush = "none"
    /\ step = "Init"
    /\ mounted = TRUE
    /\ SumIdle
    /\ WalletIdle

\* handleSubmit is called
CallSubmit ==
    /\ UserEvent
    /\ handleSubmit

NextSubmit ==
    \/ CallSubmit
    \/ SettleOk
    \/ SettleFail
    \/ TimerExpire

SpecSubmit == InitSubmit /\ [][NextSubmit]_vars

\* ------------------------------------------------------------------------
\* One edit on its own: the amount handlers are called once, with any input,
\* on a form that is idle (no fetch, swap or effect under way)
\* ------------------------------------------------------------------------

\* Token pairs the selectors can leave: the initial pair, the pair after a
\* swap, and a pair with a token the feed prices at 0 or not at all
TokenPairs == { <<"ETH", "USDC">>, <<"USDC", "ETH">>, <<"ETH", "ZIL">> }

\* The price table after a successful fetch of each feed, and after a failed
\* fetch
PriceTables == { pricesMap(data) : data \in Feeds } \cup { <<>> }

\* The form after `typed` was entered into From with tokens pair and table pr
EditStart(pair, pr, typed) ==
    [fromToken |-> pair[1], toToken |-> pair[2], fromAmount |-> typed,
     toAmount |-> ToFromFrom(typed,
                             ExchangeRate([fromToken |-> pair[1],
                                           toToken |-> pair[2]], pr))]

InitEdit ==
    /\ prices \in PriceTables
    /\ formData \in { EditStart(pair, prices, typed) :
                         pair \in TokenPairs, typed \in { <<>>, <<"2">> } }
    /\ error = ""
    /\ lastUpdatedField = "from"
    /\ showSuccess = FALSE
    /\ loading = FALSE
    /\ fetchError = (prices = <<>>)
    /\ inFlight = 0
    /\ pending = <<>>
    /\ stale = FALSE
    /\ polls = 0
    /\ events = MaxEvents - 1
    /\ isSwapping = FALSE
    /\ swapError = Null
    /\ lastTransaction = NoTransaction
    /\ swaps = <<>>
    /\ timers = 0
    /\ depRate = ExchangeRate(formData, prices)
    /\ effect = NoEffect
    /\ flush = "none"
    /\ step = "Init"
    /\ mounted = TRUE
    /\ SumIdle
    /\ WalletIdle

\* The From input receives value
TypeFromValue(value) ==
    /\ ControlsEnabled
    /\ UserEvent
    /\ handleFromAmountChange(value)
    /\ UNCHANGED <<elsewhere, priceVars, swapVars>>

\* The To input receives value
TypeToValue(value) ==
    /\ ControlsEnabled
    /\ UserEvent
    /\ handleToAmountChange(value)
    /\ UNCHANGED <<elsewhere, priceVars, swapVars>>

TypeFrom == \E value \in EditInputs : TypeFromValue(value)

TypeTo == \E value \in EditInputs : TypeToValue(value)

NextEdit ==
    \/ TypeFrom
    \/ TypeTo

SpecEdit == InitEdit /\ [][NextEdit]_vars

\* ------------------------------------------------------------------------
\* Properties
\* ------------------------------------------------------------------------

AmountOf(fd, field) == IF field = "from" THEN fd.fromAmount ELSE fd.toAmount

\* The counterpart of the last-edited amount at a rate: forward from the From
\* field, backward from the To field
Counterpart(fd, luf, rate) ==
    IF luf = "from" THEN ToFromFrom(fd.fromAmount, rate)
                    ELSE FromFromTo(fd.toAmount, rate)

SameTokens(fd1, fd2) ==
    fd1.fromToken = fd2.fromToken /\ fd1.toToken = fd2.toToken

\* C1: a run of the rate effect leaves unchanged the amount of the field that
\* is lastUpdatedField when it runs, and both tokens.
C1_EffectKeepsLastEdited ==
    [][RunEffect =>
          /\ AmountOf(formData', lastUpdatedField)
                = AmountOf(formData, lastUpdatedField)
          /\ SameTokens(formData', formData)]_vars

\* C2: when an edit of the field the scheduled effect took as last edited is
\* handled before the effect runs, the effect leaves the edited value in place.
C2_EditSurvivesEffect ==
    [][(/\ RunEffect
        /\ step \in {"EditFrom", "EditTo"}
        /\ lastUpdatedField = effect[1].lastUpdatedField)
       => AmountOf(formData', lastUpdatedField)
             = AmountOf(formData, lastUpdatedField)]_vars

\* C2 witness: MAX gave 10 at rate 3500, the refresh to 4000 scheduled the
\* effect, the user typed 2 into From, then the effect ran: From still holds 2
\* (To holds the counterpart of the 10 the effect had captured).
C2_Witness ==
    /\ step = "Flush"
    /\ lastUpdatedField = "from"
    /\ formData.fromAmount = <<"2">>
    /\ formData.toAmount = <<"4", "0", "0", "0", "0", ".", "0", "0", "0", "0", "0", "0">>

\* C3: the counterpart a run of the rate effect leaves is the conversion of
\* the last-edited amount as it is when the effect runs, at the current rate.
C3_EffectReadsLatest ==
    [][RunEffect =>
          AmountOf(formData', Other(lastUpdatedField))
             = Counterpart(formData, lastUpdatedField,
                           ExchangeRate(formData, prices))]_vars

\* C4: whenever the exchange rate is positive and no rate effect is pending,
\* the amount of the field that is not lastUpdatedField is the conversion of
\* the lastUpdatedField amount at the current rate.
C4_FieldsConsistent ==
    (RatePos(ExchangeRate(formData, prices)) /\ effect = NoEffect)
       => AmountOf(formData, Other(lastUpdatedField))
             = Counterpart(formData, lastUpdatedField,
                           ExchangeRate(formData, prices))

C6_FailureKeepsSubmitted ==
    [][SettleFail =>
          /\ ~isSwapping'
          /\ swapError' # Null
          /\ formData' = Head(swaps).formData]_vars

AfterSwap(fd, luf, dep) ==
    LET r == Render(SwappedForm(fd), Other(luf), prices, TRUE, dep)
    IN  [formData |-> r.formData, lastUpdatedField |-> Other(luf),
         depRate |-> r.depRate]

\* C10: when the swap button is clicked with no rate effect pending, a second
\* click right after it (only the effect each swap triggers runs in between)
\* restores the tokens, the amounts and lastUpdatedField.
C10_SwapTwiceRestores ==
    [][(SwapTokens /\ effect = NoEffect) =>
          LET second == AfterSwap(formData', lastUpdatedField', depRate')
          IN  /\ second.formData = formData
              /\ second.lastUpdatedField = lastUpdatedField]_vars

\* The messages of validateSwapAmount
AmountMessages ==
    { "Amount is required", "Please enter a valid number",
      "Amount must be greater than 0", "Amount is too large" }

\* C8: handleSubmit called with a From amount that is empty, not a number
\* greater than 0, or above the safe-integer bound sets an amount validation
\* error, starts no swap, and leaves tokens, amounts and lastUpdatedField
\* unchanged; for "0" the error is "Amount must be greater than 0".
C8_InvalidAmountRejected ==
    [][(CallSubmit /\ formData.fromAmount \in InvalidSubmitAmounts) =>
          /\ error' \in AmountMessages
          /\ (formData.fromAmount = <<"0">>
                 => error' = "Amount must be greater than 0")
          /\ UNCHANGED <<swaps, isSwapping, formData, lastUpdatedField>>]_vars

\* C8 witness: a submit of "0" has been rejected while idle.
C8_Witness ==
    /\ step = "SubmitInvalid"
    /\ formData.fromAmount = <<"0">>
    /\ error = "Amount must be greater than 0"
    /\ swaps = <<>>
    /\ ~isSwapping

\* C9 as stated: handleSubmit called with equal tokens sets the error
\* "Cannot swap the same token" and starts no swap.
C9_SameTokenAlwaysReported ==
    [][(CallSubmit /\ formData.fromToken = formData.toToken) =>
          /\ error' = "Cannot swap the same token"
          /\ UNCHANGED <<swaps, isSwapping>>]_vars

\* C9 amended: handleSubmit called with equal tokens starts no swap and sets
\* a validation error, which is "Cannot swap the same token" when the From
\* amount passes the amount validation (the amount's message otherwise).
C9_SameTokenRejected ==
    [][(CallSubmit /\ formData.fromToken = formData.toToken) =>
          /\ UNCHANGED <<swaps, isSwapping, formData, lastUpdatedField>>
          /\ IF formData.fromAmount \in ValidSubmitAmounts
             THEN error' = "Cannot swap the same token"
             ELSE error' \in AmountMessages]_vars

\* C9 witness: a submit of a valid amount with equal tokens has been rejected.
C9_Witness ==
    /\ step = "SubmitInvalid"
    /\ formData.fromToken = formData.toToken
    /\ formData.fromAmount \in ValidSubmitAmounts
    /\ error = "Cannot swap the same token"
    /\ swaps = <<>>
    /\ ~isSwapping

\* C11: a click on the swap button exchanges the two tokens and the two
\* amounts in one step and flips lastUpdatedField: the form it leaves is the
\* form before it with From and To exchanged.
C11_SwapExchanges ==
    [][SwapTokens =>
          /\ formData' = SwappedForm(formData)
          /\ lastUpdatedField' = Other(lastUpdatedField)]_vars

\* The digits of an amount, without its point
DigitsIn(str) == DigitsOf(SelectSeq(str, IsDigit))

\* The number of digits after the point of an amount
FractionLen(raw) == Len(FractionOf(Drop(raw, DigitPrefixLen(raw))))

\* str is written with exactly Decimals digits after its point and at least
\* one before it
FixedDecimals(str) ==
    /\ Len(str) >= Decimals + 2
    /\ \A k \in 1..Len(str) :
          IF k = Len(str) - Decimals THEN str[k] = "." ELSE IsDigit(str[k])

\* The raw result of a conversion, scaled by 10^Decimals, as a fraction of
\* natural numbers, computed without rounding: the amount is the decimal
\* number raw denotes and the rate the number r is
ExactScaled(raw, r, field) ==
    IF field = "from"
    THEN [num |-> MulPow2(MulPow10(Mul(FromDigits(DigitsIn(raw)), r.m), Decimals),
                          PowerAbove(r.e)),
          den |-> MulPow2(MulPow10(One, FractionLen(raw)), PowerAbove(-r.e))]
    ELSE [num |-> MulPow2(MulPow10(FromDigits(DigitsIn(raw)), Decimals),
                          PowerAbove(-r.e)),
          den |-> MulPow2(Mul(MulPow10(One, FractionLen(raw)), r.m),
                          PowerAbove(r.e))]

\* k = floor(p.num / p.den)
IsFloor(k, p) ==
    /\ ~Greater(Mul(k, p.den), p.num)
    /\ Greater(Mul(Add(k, One), p.den), p.num)

\* str is the counterpart the conversion is to return for the amount raw at
\* the rate r: empty when there is no rate or the raw result is 0, otherwise
\* floor(raw result * 10^Decimals) / 10^Decimals written with Decimals digits
IsExactCounterpart(str, raw, r, field) ==
    IF ~RatePos(r) \/ FromDigits(DigitsIn(raw)) = <<>>
    THEN str = <<>>
    ELSE /\ FixedDecimals(str)
         /\ IsFloor(FromDigits(DigitsIn(str)), ExactScaled(raw, r, field))

\* C12: an accepted edit makes the edited field lastUpdatedField, stores the
\* input as typed, and sets the other field to the exact floor of the raw
\* result (amount * rate from From, amount / rate from To) at 6 decimals.
C12_EditConverts ==
    [][\A value \in EditAmounts :
          /\ TypeFromValue(value) =>
                /\ lastUpdatedField' = "from"
                /\ formData'.fromAmount = value
                /\ IsExactCounterpart(formData'.toAmount, value,
                                      ExchangeRate(formData, prices), "from")
          /\ TypeToValue(value) =>
                /\ lastUpdatedField' = "to"
                /\ formData'.toAmount = value
                /\ IsExactCounterpart(formData'.fromAmount, value,
                                      ExchangeRate(formData, prices), "to")]_vars

\* C13: an edit whose input is not empty and fails the pattern "digits,
\* optional point, digits" (a letter, two points, an exponent, a sign, a
\* blank) is rejected: tokens, amounts and lastUpdatedField stay as they are
\* and the syntax error is set.
C13_MalformedRejected ==
    [][\A value \in MalformedEdits :
          (TypeFromValue(value) \/ TypeToValue(value)) =>
              /\ UNCHANGED <<formData, lastUpdatedField>>
              /\ error' = "Please enter a valid number"]_vars

\* A malformed input has been rejected on a form that holds amounts
C13_Witness ==
    /\ step = "EditRejected"
    /\ error = "Please enter a valid number"
    /\ formData.fromAmount = <<"2">>
    /\ formData.toAmount = <<"7", "0", "0", "0", ".", "0", "0", "0", "0", "0", "0">>

\* C14: after an accepted edit no error is shown: the form's own error and
\* the error of a failed settlement (the banner shows error || swapError) are
\* both cleared.
C14_EditClearsErrors ==
    [][(EditFrom \/ EditTo) /\ step' \in {"EditFrom", "EditTo"} =>
          (error' = "" /\ swapError' = Null)]_vars

\* C15: in every reachable state each amount is empty or of the form "digits,
\* optional point, digits", whether typed or written by a conversion.
C15_AmountsWellFormed ==
    /\ AmountPattern(formData.fromAmount)
    /\ AmountPattern(formData.toAmount)

\* C16: for a rate above 0 the counterpart an accepted edit writes denotes
\* floor(p * 10^6) / 10^6 for the raw result p (amount * rate forward,
\* amount / rate backward), so it is never above p (stated for the
\* counterparts written in fixed notation).
C16_ConvertFloors ==
    ( /\ step \in {"EditFrom", "EditTo"}
      /\ AmountPattern(AmountOf(formData, Other(lastUpdatedField)))
      /\ RatePos(ExchangeRate(formData, prices)) ) =>
        IsExactCounterpart(AmountOf(formData, Other(lastUpdatedField)),
                           AmountOf(formData, lastUpdatedField),
                           ExchangeRate(formData, prices), lastUpdatedField)

\* C17: with no rate (a selected token has no price in the table, or a price
\* of 0) an accepted edit of either field leaves the other field empty,
\* whatever amount is typed; it never writes a zero.
C17_NoRateNoCounterpart ==
    [][\A value \in EditAmounts :
          ~RatePos(ExchangeRate(formData, prices)) =>
              /\ TypeFromValue(value) => formData'.toAmount = <<>>
              /\ TypeToValue(value) => formData'.fromAmount = <<>>]_vars

\* An amount has been typed into To while a token of the pair has no price
C17_Witness ==
    /\ step = "EditTo"
    /\ formData.toAmount = <<"2">>
    /\ formData.fromAmount = <<>>
    /\ prices # <<>>
    /\ ~RatePos(ExchangeRate(formData, prices))

\* C18: a failed fetch leaves the price table (the token list is its domain)
\* empty and the error flag set, whatever the table held before.
C18_FailedFetchClears ==
    [][FetchFail => (prices' = <<>> /\ fetchError')]_vars

\* A fetch has failed after a successful one whose prices the form had used
C18_Witness ==
    /\ step = "FetchFail"
    /\ prices = <<>>
    /\ fetchError
    /\ formData.toAmount = <<"7", "0", "0", "0", ".", "0", "0", "0", "0", "0", "0">>

\* pr holds exactly the entries of data that carry a price
IsTableOf(pr, data) ==
    /\ DOMAIN pr = { data[k].currency : k \in { j \in 1..Len(data) : data[j].priced } }
    /\ \A c \in DOMAIN pr :
          \E k \in 1..Len(data) :
             data[k].priced /\ data[k].currency = c /\ data[k].price = pr[c]

\* C19: a successful fetch replaces the table by exactly the entries of the
\* feed that carry a price: no key of the table before survives unless the
\* feed has it, a currency without a price is no key, and the error flag is
\* cleared.
C19_RefreshReplaces ==
    [][FetchOk =>
          /\ fetchError' = FALSE
          /\ \E data \in Feeds : IsTableOf(prices', data)]_vars

\* A fetch has replaced a table that held ZIL, the token the user had
\* selected, by one without it
C19_Witness ==
    /\ step = "FetchOk"
    /\ ~fetchError
    /\ formData.toToken = "ZIL"
    /\ DOMAIN prices = {"ETH", "USDC"}

\* C20: in every reachable state every key of the price table has a price
\* above 0, whatever the feed held (entries priced 0 included).
C20_PricesPositive == \A c \in DOMAIN prices : prices[c] > 0

C23_SubmittingEnds == isSwapping ~> (~isSwapping /\ swaps = <<>>)

\* A submitted swap has failed and the form accepts a submit again
C23_Witness ==
    /\ step = "SettleFail"
    /\ ~isSwapping
    /\ swaps = <<>>
    /\ ~SubmitDisabled

\* The amount the rate effect writes for the last edited amount at a rate
Recomputed(fd, luf, rate) ==
    IF luf = "from" THEN ToFromFrom(fd.fromAmount, rate)
    ELSE FromFromTo(fd.toAmount, rate)

\* C24: a token selection changes the token of its field only: the other
\* token, lastUpdatedField and the last edited amount stay, and the other
\* amount stays too unless the recomputation for the new rate rewrites it.
C24_TokenChangeFrame ==
    [][TokenChange =>
          /\ lastUpdatedField' = lastUpdatedField
          /\ step' = "TokenFrom" => formData'.toToken = formData.toToken
          /\ step' = "TokenTo" => formData'.fromToken = formData.fromToken
          /\ AmountOf(formData', lastUpdatedField) = AmountOf(formData, lastUpdatedField)
          /\ \/ AmountOf(formData', Other(lastUpdatedField))
                    = AmountOf(formData, Other(lastUpdatedField))
             \/ /\ RatePos(ExchangeRate(formData', prices))
                /\ AmountOf(formData', Other(lastUpdatedField))
                      = Recomputed(formData, lastUpdatedField,
                                   ExchangeRate(formData', prices))]_vars

\* The To token has been changed to one without a rate: both amounts are
\* those of before
C24_Witness ==
    /\ step = "TokenTo"
    /\ formData.toToken = "ZIL"
    /\ formData.fromAmount = <<"2">>
    /\ formData.toAmount = <<"8", "0", "0", "0", ".", "0", "0", "0", "0", "0", "0">>

\* The number str is read as is finite, above 0 and not above the
\* safe-integer bound
SafePositive(str) ==
    /\ Positive(StringToNumber(str))
    /\ ~GreaterNum(StringToNumber(str), MaxSafeInteger)

\* C25 as stated: handleSubmit accepts a form (starts the swap) exactly when
\* the From amount is not empty and is read as a number above 0 and not
\* above the safe-integer bound, and the two tokens differ; it sets a
\* validation error otherwise.
C25_AcceptsExactlyParsable ==
    [][CallSubmit =>
          IF /\ formData.fromAmount # <<>>
             /\ SafePositive(formData.fromAmount)
             /\ formData.fromToken # formData.toToken
          THEN step' = "Submit" /\ error' = ""
          ELSE step' = "SubmitInvalid" /\ error' # ""]_vars

\* C25 amended: handleSubmit accepts a form exactly when the From amount is
\* not empty, has the form "digits, optional point, digits", is read as a
\* number above 0 and not above the safe-integer bound, and the two tokens
\* differ; it sets a validation error otherwise.
C25_AcceptsExactlyValid ==
    [][CallSubmit =>
          IF /\ formData.fromAmount # <<>>
             /\ AmountPattern(formData.fromAmount)
             /\ SafePositive(formData.fromAmount)
             /\ formData.fromToken # formData.toToken
          THEN step' = "Submit" /\ error' = "" /\ Len(swaps') = Len(swaps) + 1
          ELSE /\ step' = "SubmitInvalid"
               /\ error' \in AmountMessages \cup {"Cannot swap the same token"}
               /\ UNCHANGED swaps]_vars

\* The in-progress amount "10." has been accepted with two different tokens
C25_Witness ==
    /\ step = "Submit"
    /\ formData.fromAmount = <<"1", "0", ".">>
    /\ formData.fromToken # formData.toToken
    /\ error = ""
    /\ Len(swaps) = 1

\* C26: the rate of two currencies is defined exactly when both have a price
\* in the table, and is then the quotient of the two prices; this holds for
\* getExchangeRate of the hook and for the exchangeRate of the form's tokens.
C26_RateDefinedIffPriced ==
    /\ \A f \in Currencies : \A t \in Currencies :
          /\ getExchangeRate(f, t, prices) # <<>>
                <=> (f \in DOMAIN prices /\ t \in DOMAIN prices)
          /\ getExchangeRate(f, t, prices) # <<>>
                => getExchangeRate(f, t, prices)[1]
                      = Over(FromInt(prices[f]), FromInt(prices[t]))
    /\ RatePos(ExchangeRate(formData, prices))
          <=> (formData.fromToken \in DOMAIN prices /\ formData.toToken \in DOMAIN prices)

\* ------------------------------------------------------------------------
\* Sum to n (Sol1.js)
\* ------------------------------------------------------------------------

\* The calls are made with the integers -MaxN .. MaxN. Their sums stay far
\* below 2^53, where the arithmetic of the code on doubles is that of the
\* integers.
MaxN == 10

\* The swap form is not rendered
FormIdle ==
    /\ formData = [fromToken |-> "ETH", toToken |-> "USDC",
                   fromAmount |-> <<>>, toAmount |-> <<>>]
    /\ error = ""
    /\ lastUpdatedField = "from"
    /\ showSuccess = FALSE
    /\ prices = <<>>
    /\ loading = FALSE
    /\ fetchError = FALSE
    /\ inFlight = 0
    /\ pending = <<>>
    /\ stale = FALSE
    /\ polls = 0
    /\ events = 0
    /\ isSwapping = FALSE
    /\ swapError = Null
    /\ lastTransaction = NoTransaction
    /\ swaps = <<>>
    /\ timers = 0
    /\ depRate = ZeroRate
    /\ effect = NoEffect
    /\ flush = "none"
    /\ mounted = FALSE

\* No implementation has returned
NoResults == [a |-> <<>>, b |-> <<>>, c |-> <<>>]

\* Gauss's formula over 0 .. m - 1
sum_to_n_a_exclusive(m) == (m * (m - 1)) \div 2

\* sum_to_n_a, lines 3-5: (n * (n + 1)) / 2; one of n and n + 1 is even, so
\* the division is exact
sum_to_n_a(m) == (m * (m + 1)) \div 2

\* The innermost call of sum_to_n_c
Top == frames[Len(frames)]

\* The stack without its innermost call
Caller == SubSeq(frames, 1, Len(frames) - 1)

\* A test case: the three implementations are called with the same input
InitSum ==
    /\ input \in (-MaxN)..MaxN
    /\ pc = "a"
    /\ i = 0
    /\ sum = 0
    /\ frames = <<>>
    /\ returned = 0
    /\ results = NoResults
    /\ step = "Init"
    /\ FormIdle
    /\ WalletIdle

\* sum_to_n_a(n), lines 3-5; then sum_to_n_b is entered: let sum = 0,
\* let i = 1
CallA ==
    /\ pc = "a"
    /\ results' = [results EXCEPT !.a = <<sum_to_n_a(input)>>]
    /\ pc' = "b"
    /\ i' = 1
    /\ sum' = 0
    /\ step' = "sum_to_n_a"
    /\ UNCHANGED <<input, frames, returned, formVars, walletVars>>

\* sum_to_n_b, lines 11-13: one turn of the loop
LoopB ==
    /\ pc = "b"
    /\ i <= input
    /\ sum' = sum + i
    /\ i' = i + 1
    /\ step' = "loop"
    /\ UNCHANGED <<input, pc, frames, returned, results, formVars, walletVars>>

\* sum_to_n_b, line 14: the loop is over, return sum; then sum_to_n_c(n) is
\* called
ReturnB ==
    /\ pc = "b"
    /\ ~(i <= input)
    /\ results' = [results EXCEPT !.b = <<sum>>]
    /\ pc' = "c"
    /\ frames' = <<input>>
    /\ step' = "sum_to_n_b"
    /\ UNCHANGED <<input, i, sum, returned, formVars, walletVars>>

\* sum_to_n_c, line 21: the argument is positive, sum_to_n_c(n - 1) is called
CallC ==
    /\ pc = "c"
    /\ ~(Top <= 0)
    /\ frames' = Append(frames, Top - 1)
    /\ step' = "recurse"
    /\ UNCHANGED <<input, pc, i, sum, returned, results, formVars, walletVars>>

\* sum_to_n_c, line 20: if (n <= 0) return 0
BaseC ==
    /\ pc = "c"
    /\ Top <= 0
    /\ returned' = 0
    /\ frames' = Caller
    /\ pc' = "unwind"
    /\ step' = "base"
    /\ UNCHANGED <<input, i, sum, results, formVars, walletVars>>

\* sum_to_n_c, line 21: the inner call has returned, return n + its value
ReturnC ==
    /\ pc = "unwind"
    /\ frames # <<>>
    /\ returned' = Top + returned
    /\ frames' = Caller
    /\ step' = "return"
    /\ UNCHANGED <<input, pc, i, sum, results, formVars, walletVars>>

\* The outermost call of sum_to_n_c has returned
DoneC ==
    /\ pc = "unwind"
    /\ frames = <<>>
    /\ results' = [results EXCEPT !.c = <<returned>>]
    /\ pc' = "done"
    /\ step' = "sum_to_n_c"
    /\ UNCHANGED <<input, i, sum, frames, returned, formVars, walletVars>>

NextSum ==
    \/ CallA
    \/ LoopB
    \/ ReturnB
    \/ CallC
    \/ BaseC
    \/ ReturnC
    \/ DoneC

SpecSum == InitSum /\ [][NextSum]_vars

\* 1 + 2 + ... + m
RECURSIVE Series(_)
Series(m) == IF m <= 0 THEN 0 ELSE Series(m - 1) + m

C28_ZeroBelowOne ==
    input <= 0 =>
        \A impl \in {"a", "b", "c"} :
            results[impl] # <<>> => results[impl] = <<0>>

\* ------------------------------------------------------------------------
\* Wallet page (refactored_wallet_page.ts)
\* ------------------------------------------------------------------------

\* The longest list useWalletBalances() returns
MaxBalances == 3

Blockchains == {"Osmosis", "Ethereum", "Arbitrum", "Zilliqa", "Neo", "Unknown"}

\* balance.amount
WalletAmounts == {-1, 0, 5, 7}

\* The currency held on a blockchain
CurrencyOn(blockchain) ==
    CASE blockchain = "Osmosis" -> "OSMO"
      [] blockchain = "Ethereum" -> "ETH"
      [] blockchain = "Arbitrum" -> "ARB"
      [] blockchain = "Zilliqa" -> "ZIL"
      [] blockchain = "Neo" -> "NEO"
      [] OTHER -> "DOGE"

\* WalletBalance, lines 5-13
WalletBalance ==
    { [currency |-> CurrencyOn(blockchain), amount |-> amount,
       blockchain |-> blockchain] :
          blockchain \in Blockchains, amount \in WalletAmounts }

\* The lists of at most len balances
BalanceLists(len) == UNION { [1..k -> WalletBalance] : k \in 0..len }

\* getPriority, lines 25-53
getPriority(blockchain) ==
    CASE blockchain = "Osmosis" -> 100
      [] blockchain = "Ethereum" -> 50
      [] blockchain = "Arbitrum" -> 30
      [] blockchain \in {"Zilliqa", "Neo"} -> 20
      [] OTHER -> -99

\* The filter of the page before its refactoring: a known priority and an
\* amount that is not positive
KeptEmpty(balance) ==
    getPriority(balance.blockchain) > -99 /\ balance.amount <= 0

\* The callback of balances.filter, lines 67-75
Kept(balance) ==
    getPriority(balance.blockchain) > -99 /\ balance.amount > 0

\* The callback of filtered.sort, lines 77-87
Compare(lhs, rhs) == getPriority(rhs.blockchain) - getPriority(lhs.blockchain)

\* The sorted list with balance put before the first entry that the
\* comparator orders after it
RECURSIVE Inserted(_, _)
Inserted(sorted, balance) ==
    IF sorted = <<>> THEN <<balance>>
    ELSE IF Compare(Head(sorted), balance) > 0
         THEN <<balance>> \o sorted
         ELSE <<Head(sorted)>> \o Inserted(Tail(sorted), balance)

\* Array.prototype.sort with the comparator of lines 77-87: a stable sort
RECURSIVE Sorted(_)
Sorted(list) ==
    IF list = <<>> THEN <<>>
    ELSE Inserted(Sorted(SubSeq(list, 1, Len(list) - 1)), list[Len(list)])

\* amount.toFixed(2), line 95, of an integer amount
Formatted(amount) ==
    LET size == IF amount < 0 THEN -amount ELSE amount
        digits == PadLeft(ToDigits(MulPow10(NatLimbs(size), 2)), 3)
    IN  (IF amount < 0 THEN <<"-">> ELSE <<>>) \o WithPoint(digits, 2)

\* The callback of sorted.map, lines 91-97
FormattedWalletBalance(balance) ==
    [currency |-> balance.currency, amount |-> balance.amount,
     blockchain |-> balance.blockchain, formatted |-> Formatted(balance.amount)]

\* The value of the useMemo, lines 63-99
Memo(list) ==
    LET sorted == Sorted(SelectSeq(list, Kept))
    IN  [k \in 1..Len(sorted) |-> FormattedWalletBalance(sorted[k])]

InitWallet ==
    /\ balances \in BalanceLists(MaxBalances)
    /\ formattedBalances = <<>>
    /\ step = "Init"
    /\ FormIdle
    /\ SumIdle

\* The first render of WalletPage computes the memo
WalletPage ==
    /\ formattedBalances = <<>>
    /\ formattedBalances' = <<Memo(balances)>>
    /\ step' = "WalletPage"
    /\ UNCHANGED <<balances, formVars, sumVars>>

NextWallet == WalletPage

SpecWallet == InitWallet /\ [][NextWallet]_vars

\* The priorities the claim lists
ListedPriority ==
    [blockchain \in {"Osmosis", "Ethereum", "Arbitrum", "Zilliqa", "Neo"} |->
        CASE blockchain = "Osmosis" -> 100
          [] blockchain = "Ethereum" -> 50
          [] blockchain = "Arbitrum" -> 30
          [] OTHER -> 20]

\* How many entries of list are the balance b
Occurrences(list, b) ==
    Cardinality({ k \in 1..Len(list) :
        /\ list[k].currency = b.currency
        /\ list[k].amount = b.amount
        /\ list[k].blockchain = b.blockchain })

\* C29: formattedBalances holds each input balance with a listed blockchain
\* and an amount above 0 as often as the input does, holds no other balance,
\* and its priorities never increase from one entry to the next
C29_FilteredAndOrdered ==
    formattedBalances # <<>> =>
        LET out == formattedBalances[1]
        IN  /\ \A b \in WalletBalance :
                Occurrences(out, b) =
                    IF b.blockchain \in DOMAIN ListedPriority /\ b.amount > 0
                    THEN Occurrences(balances, b) ELSE 0
            /\ \A j, k \in 1..Len(out) :
                j < k => ListedPriority[out[j].blockchain]
                            >= ListedPriority[out[k].blockchain]

C29_Witness ==
    /\ step = "WalletPage"
    /\ Len(balances) = 3
    /\ balances[1].blockchain = "Neo" /\ balances[1].amount = 5
    /\ balances[2].blockchain = "Osmosis" /\ balances[2].amount = 0
    /\ balances[3].blockchain = "Ethereum" /\ balances[3].amount = 7
    /\ Len(formattedBalances[1]) = 2
    /\ formattedBalances[1][1].blockchain = "Ethereum"
    /\ formattedBalances[1][1].formatted = <<"7", ".", "0", "0">>
    /\ formattedBalances[1][2].blockchain = "Neo"

\* ------------------------------------------------------------------------
\* The rate effect without a rate
\* ------------------------------------------------------------------------

\* C30: once the renders and effects of a change have run, a form whose
\* exchange rate is absent or zero shows the empty string in the field that
\* was not edited last
C30_NoStaleCounterpart ==
    (effect = NoEffect /\ flush = "none"
        /\ ~RatePos(ExchangeRate(formData, prices)))
    => AmountOf(formData, Other(lastUpdatedField)) = <<>>

\* ------------------------------------------------------------------------
\* Counterparts that denote zero
\* ------------------------------------------------------------------------

\* C31: the field that was not edited last is empty or holds a number above
\* 0, never a string that denotes zero such as "0.000000"
C31_NoZeroCounterpart ==
    LET counterpart == AmountOf(formData, Other(lastUpdatedField))
    IN  counterpart = <<>> \/ Positive(parseNumber(counterpart))

\* ------------------------------------------------------------------------
\* The recorded transaction
\* ------------------------------------------------------------------------

\* C32: a submit hands the form and its exchange rate, as they are at the
\* click, to the settlement; nothing but a submit or a settlement touches
\* what a pending settlement holds; and the transaction a successful
\* settlement records has the tokens, the parsed amounts and the rate that
\* were handed over
C32_TransactionAsSubmitted ==
    [][/\ step' = "Submit" =>
            swaps' = Append(swaps, [formData |-> formData,
                                    exchangeRate |->
                                        ExchangeRate(formData, prices)])
       /\ step' \notin {"Submit", "SettleOk", "SettleFail"} => swaps' = swaps
       /\ step' = "SettleOk" =>
            LET call == Head(swaps)
                transaction == lastTransaction'[1]
            IN  /\ transaction.fromToken = call.formData.fromToken
                /\ transaction.toToken = call.formData.toToken
                /\ transaction.fromAmount
                      = StringToNumber(call.formData.fromAmount)
                /\ transaction.toAmount
                      = StringToNumber(call.formData.toAmount)
                /\ transaction.exchangeRate = call.exchangeRate]_vars

\* A swap submitted at ETH = 3500 has settled after a refresh to ETH = 4000
C32_Witness ==
    /\ step = "SettleOk"
    /\ prices # <<>>
    /\ prices["ETH"] = 4000
    /\ lastTransaction # NoTransaction
    /\ lastTransaction[1].fromToken = "ETH"
    /\ lastTransaction[1].toToken = "USDC"
    /\ lastTransaction[1].exchangeRate = FromInt(3500)
    /\ lastTransaction[1].fromAmount = FromInt(2)
    /\ lastTransaction[1].toAmount = FromInt(7000)

C34_AmountsPositive ==
    lastTransaction # NoTransaction =>
        /\ Positive(lastTransaction[1].fromAmount)
        /\ Positive(lastTransaction[1].toAmount)

\* ------------------------------------------------------------------------
\* Overlapping refreshes
\* ------------------------------------------------------------------------

\* C35: the price table and the error flag are never written by the response
\* of a call that was started before a call whose response has already been
\* processed; so once no call is pending they are those of the call started
\* last
C35_LatestStartedWins == ~stale

\* ------------------------------------------------------------------------
\* The success indication
\* ------------------------------------------------------------------------

\* C36: while the display timer of the last successful swap is running (the
\* timers all last 3000 ms, so it is the last to expire), the success
\* indication is shown
C36_ShownUntilOwnTimer == timers > 0 => showSuccess

\* ------------------------------------------------------------------------
\* lastTransaction
\* ------------------------------------------------------------------------

\* C37: lastTransaction changes in no step but a successful settlement, a
\* failed settlement and a rejected submit leave it as it was, and a
\* transaction that is present has status 'completed'
C37_OnlySuccessRecords ==
    [][/\ lastTransaction' # lastTransaction => step' = "SettleOk"
       /\ step' \in {"SettleFail", "SubmitInvalid"} =>
             lastTransaction' = lastTransaction
       /\ lastTransaction' # NoTransaction =>
             lastTransaction'[1].status = "completed"]_vars

\* A settlement has failed after an earlier one succeeded
C37_Witness ==
    /\ step = "SettleFail"
    /\ swapError # Null
    /\ lastTransaction # NoTransaction
    /\ lastTransaction[1].status = "completed"

\* ------------------------------------------------------------------------
\* An edit followed by the retyping of its counterpart
\* ------------------------------------------------------------------------

\* The form at rest, as for one edit, with two user events to go
InitChain ==
    /\ prices \in PriceTables
    /\ formData \in { EditStart(pair, prices, typed) :
                         pair \in TokenPairs, typed \in { <<>>, <<"2">> } }
    /\ error = ""
    /\ lastUpdatedField = "from"
    /\ showSuccess = FALSE
    /\ loading = FALSE
    /\ fetchError = (prices = <<>>)
    /\ inFlight = 0
    /\ pending = <<>>
    /\ stale = FALSE
    /\ polls = 0
    /\ events = MaxEvents - 2
    /\ isSwapping = FALSE
    /\ swapError = Null
    /\ lastTransaction = NoTransaction
    /\ swaps = <<>>
    /\ timers = 0
    /\ depRate = ExchangeRate(formData, prices)
    /\ effect = NoEffect
    /\ flush = "none"
    /\ step = "Init"
    /\ mounted = TRUE
    /\ SumIdle
    /\ WalletIdle

\* The first edit: any input into either field
FirstEdit ==
    /\ step = "Init"
    /\ (TypeFrom \/ TypeTo)

\* After an edit of To, the user enters into From the amount From shows
RetypeFrom ==
    /\ step = "EditTo"
    /\ TypeFromValue(formData.fromAmount)

\* After an edit of From, the user enters into To the amount To shows
RetypeTo ==
    /\ step = "EditFrom"
    /\ TypeToValue(formData.toAmount)

NextChain ==
    \/ FirstEdit
    \/ RetypeFrom
    \/ RetypeTo

SpecChain == InitChain /\ [][NextChain]_vars

\* C38: at a rate above 0, entering into From the amount that an edit of To
\* wrote there leaves in To a number that is not above the one it held, and
\* entering into To the amount that an edit of From wrote there leaves in From
\* a number that is not above the one it held
C38_ChainNeverIncreases ==
    [][RatePos(ExchangeRate(formData, prices)) =>
          /\ (step = "EditTo" /\ step' = "EditFrom") =>
                ~GreaterNum(parseNumber(formData'.toAmount),
                            parseNumber(formData.toAmount))
          /\ (step = "EditFrom" /\ step' = "EditTo") =>
                ~GreaterNum(parseNumber(formData'.fromAmount),
                            parseNumber(formData.fromAmount))]_vars

\* ------------------------------------------------------------------------
\* The three exchange rates
\* ------------------------------------------------------------------------

\* x / 0 for x > 0: above every finite number
Infinity == [nan |-> FALSE, neg |-> FALSE, m |-> One, e |-> 1024]

\* tokenUtils.hasTokenPrice, lines 238-240: currency in prices
hasTokenPrice(currency, pr) == currency \in DOMAIN pr

\* tokenUtils.getExchangeRate, lines 249-258: null (<<>>) unless both tokens
\* are keys of the table, else prices[fromToken] / prices[toToken]
utilsGetExchangeRate(fromToken, toToken, pr) ==
    IF ~hasTokenPrice(fromToken, pr) \/ ~hasTokenPrice(toToken, pr) THEN <<>>
    ELSE IF pr[toToken] # 0
    THEN <<Over(FromInt(pr[fromToken]), FromInt(pr[toToken]))>>
    ELSE IF pr[fromToken] = 0 THEN <<NaN>>
    ELSE <<Infinity>>

\* C39: for every pair of currencies and the table the hook holds, the form's
\* exchangeRate is 0 exactly when the hook's getExchangeRate is null and exactly
\* when the utility's getExchangeRate is null, and otherwise the three values
\* are the same
C39_RatesAgree ==
    \A f \in Currencies : \A t \in Currencies :
        LET form == ExchangeRate([fromToken |-> f, toToken |-> t], prices)
            hook == getExchangeRate(f, t, prices)
            util == utilsGetExchangeRate(f, t, prices)
        IN  /\ (hook = <<>>) <=> (util = <<>>)
            /\ (hook = <<>>) <=> IsZero(form)
            /\ hook # <<>> => (hook[1] = form /\ util = hook)

====
